---------------------------- MODULE Spec2Model ----------------------------
(***************************************************************************)
(* A model of tools/audio2fseq.py: the encoder that turns decoded PCM      *)
(* samples into FSEQ v2 channel data, the standalone writer, the header    *)
(* reader and the merge of the audio grid into an existing sequence file.  *)
(*                                                                         *)
(* Files are sequences of bytes (0..255).  Python exceptions and           *)
(* sys.exit(1) end a run in pc = "error" with the exception's name in      *)
(* result.  A run of main is StepTime, ReadAudio, FrameParams, then one    *)
(* EncodeFrame per iteration of the while loop of                          *)
(* samples_to_frame_channels, then either the standalone writer or the     *)
(* merge, each one step per written row.  The end-to-end scenario, whose   *)
(* buffers hold 44100 samples, takes each of the two loops in one step     *)
(* (Encode, Write).                                                        *)
(***************************************************************************)
EXTENDS Integers, Sequences, FiniteSets, TLC

VARIABLES
    args,               \* the parsed command line (argparse namespace)
    step_time_ms,       \* main's step_time_ms
    audio,              \* what read_audio returns for args.input
    lightFile,          \* the bytes of the file at args.merge
    pc,                 \* position in main
    result,             \* "running", "ok", or the exception that ended the run
    samples,            \* main's samples
    n_channels,         \* main's n_channels
    samples_per_frame,  \* main's samples_per_frame
    channels_per_frame, \* main's channels_per_frame
    frames,             \* the frames list of samples_to_frame_channels
    frame_idx,          \* frame_idx of samples_to_frame_channels
    locals,             \* locals of write_fseq_v2 / merge_into_fseq
    frame_i,            \* index of the row loop of the writer / the merge
    outFile,            \* the output file: opened or not, and its write calls
    ret,                \* what the writer / the merge returned
    codec               \* header codec run: input fields, bytes, decoded

vars == <<args, step_time_ms, audio, lightFile, pc, result, samples, n_channels,
          samples_per_frame, channels_per_frame, frames, frame_idx, locals,
          frame_i, outFile, ret, codec>>

-----------------------------------------------------------------------------
(* Bounds of the model *)

\* longest decoded sample sequence
MaxLen == 3
\* largest --start-channel
MaxStart == 2
\* most frames of a merge target
MaxLightFrames == 2
\* longest variable header handed to the header codec
MaxVarLen == 5

\* iterations after which a non-terminating encode loop is cut off
MaxFrameIdx == MaxLen + 1

-----------------------------------------------------------------------------
(* Python arithmetic and sequence primitives *)

Min(a, b) == IF a < b THEN a ELSE b
Max(a, b) == IF a > b THEN a ELSE b

\* int(a / b) for integers a and b > 0: true division, truncated toward zero
TruncDiv(a, b) == IF a >= 0 THEN a \div b ELSE -((-a) \div b)

\* a // b for b # 0: Python's floor division
PyFloorDiv(a, b) == IF b > 0 THEN a \div b ELSE (-a) \div (-b)

\* a slice bound i normalised against a sequence of length n
SliceIndex(i, n) == IF i < 0 THEN Max(i + n, 0) ELSE Min(i, n)

\* s[a:b]
PySlice(s, a, b) ==
    LET lo == SliceIndex(a, Len(s))
        hi == SliceIndex(b, Len(s))
    IN  IF hi <= lo THEN <<>> ELSE SubSeq(s, lo + 1, hi)

\* s after  s[a:b] = v  (the sequence shrinks or grows when Len(v) # b - a)
PySliceAssign(s, a, b, v) ==
    LET lo == SliceIndex(a, Len(s))
        hi == Max(SliceIndex(b, Len(s)), lo)
    IN  SubSeq(s, 1, lo) \o v \o SubSeq(s, hi + 1, Len(s))

RECURSIVE Sum(_)
Sum(s) == IF s = <<>> THEN 0 ELSE Head(s) + Sum(Tail(s))

Zeros(n) == [i \in 1..n |-> 0]

\* struct.pack("<B" / "<H" / "<I", v); the caller checks the range
PackU8(v) == <<v>>
PackU16(v) == <<v % 256, (v \div 256) % 256>>
PackU32(v) == <<v % 256, (v \div 256) % 256, (v \div 65536) % 256,
                (v \div 16777216) % 256>>
InU8(v) == v >= 0 /\ v <= 255
InU16(v) == v >= 0 /\ v <= 65535
\* the integers of this model are below 2^31, so only the sign can be wrong
InU32(v) == v >= 0

\* struct.unpack of little-endian bytes b[at+1 .. at+n]
UnpackU8(b, at) == b[at + 1]
UnpackU16(b, at) == b[at + 1] + 256 * b[at + 2]
UnpackU32(b, at) == b[at + 1] + 256 * b[at + 2] + 65536 * b[at + 3]
                    + 16777216 * b[at + 4]

-----------------------------------------------------------------------------
(* Module constants *)

SYNC_MARKER == <<170, 85>>
FSEQ_MAGIC == <<80, 83, 69, 81>>

-----------------------------------------------------------------------------
(* SampleTransform *)

\* to_mono with the mean truncated toward zero instead of floored
to_mono_trunc(smp, nch) ==
    IF nch = 1 THEN smp
    ELSE [k \in 1..((Len(smp) + nch - 1) \div nch) |->
            LET chunk == PySlice(smp, (k - 1) * nch, (k - 1) * nch + nch)
            IN  TruncDiv(Sum(chunk), Len(chunk))]

\* to_mono: the mean of each group of n_channels samples, by Python's //
to_mono(smp, nch) ==
    IF nch = 1 THEN smp
    ELSE [k \in 1..((Len(smp) + nch - 1) \div nch) |->
            LET chunk == PySlice(smp, (k - 1) * nch, (k - 1) * nch + nch)
            IN  Sum(chunk) \div Len(chunk)]

\* resample_linear.  src_pos = i * src_rate / dst_rate is kept as the exact
\* fraction (idx + r / dst_rate); the rates of this model make the binary
\* floating-point arithmetic of the code exact.
resample_linear(smp, src_rate, dst_rate) ==
    IF src_rate = dst_rate THEN smp
    ELSE LET out_len == TruncDiv(Len(smp) * dst_rate, src_rate)
         IN  [k \in 1..out_len |->
                LET i == k - 1
                    idx == (i * src_rate) \div dst_rate
                    r == (i * src_rate) % dst_rate
                    val == IF idx + 1 < Len(smp)
                           THEN TruncDiv(smp[idx + 1] * (dst_rate - r)
                                         + smp[idx + 2] * r, dst_rate)
                           ELSE smp[Min(idx, Len(smp) - 1) + 1]
                IN  Max(-32768, Min(32767, val))]

-----------------------------------------------------------------------------
(* FrameEncoder *)

\* the two bytes of one sample in the wrong order: low byte, then high byte
SampleBytesLowFirst(sample) ==
    LET u == IF sample < 0 THEN sample + 65536 ELSE sample
    IN  <<u % 256, (u \div 256) % 256>>

\* the two bytes of one sample: high byte, then low byte
SampleBytes(sample) ==
    LET u == IF sample < 0 THEN sample + 65536 ELSE sample
    IN  <<(u \div 256) % 256, u % 256>>

\* the chunk of frame number fi with the padding of the last frame left out
ChunkNoPad(smp, spf, fi) == PySlice(smp, fi * spf, fi * spf + spf)

\* the chunk of frame number fi: samples[start:end], padded with silence
Chunk(smp, spf, fi) ==
    LET start == fi * spf
        end == start + spf
        chunk == PySlice(smp, start, end)
    IN  IF Len(chunk) < spf THEN chunk \o Zeros(spf - Len(chunk)) ELSE chunk

\* frame_data of one chunk: the sync marker, then every sample's bytes
FrameData(chunk) ==
    SYNC_MARKER \o [i \in 1..(2 * Len(chunk)) |->
                        SampleBytes(chunk[(i + 1) \div 2])[2 - (i % 2)]]

-----------------------------------------------------------------------------
(* FseqHeaderCodec *)

\* os.path.basename: what follows the last "/" (byte 47)
Basename(path) ==
    LET slashes == {i \in 1..Len(path) : path[i] = 47}
        last == IF slashes = {} THEN 0
                ELSE CHOOSE i \in slashes : \A j \in slashes : j <= i
    IN  SubSeq(path, last + 1, Len(path))

\* b"fpp-eavesdrop audio2fseq\x00"
SpValue == <<102, 112, 112, 45, 101, 97, 118, 101, 115, 100, 114, 111, 112,
             32, 97, 117, 100, 105, 111, 50, 102, 115, 101, 113, 0>>

\* build_variable_header: the 'mf' record, then the 'sp' record
build_variable_header(audio_filename) ==
    LET mf_value == Basename(audio_filename) \o <<0>>
    IN  <<109, 102>> \o PackU16(Len(mf_value)) \o mf_value
        \o <<115, 112>> \o PackU16(Len(SpValue)) \o SpValue

\* b"merged", the file name merge_into_fseq hands to build_variable_header
MergedName == <<109, 101, 114, 103, 101, 100>>

\* the padding without its outer "% 4": 4 bytes where none are needed
PaddingUnwrapped(offset) == 4 - (offset % 4)

\* bytes that align the channel data to 4 bytes
Padding(offset) == (4 - (offset % 4)) % 4

\* the 32-byte fixed header write_fseq_v2 packs
FixedHeader(channel_data_offset, channels, frame_count, step_time) ==
    FSEQ_MAGIC \o PackU16(channel_data_offset) \o PackU8(0) \o PackU8(2)
    \o PackU16(32) \o PackU32(channels) \o PackU32(frame_count)
    \o PackU8(step_time) \o PackU8(0) \o PackU8(0) \o PackU8(0)
    \o PackU8(0) \o PackU8(0) \o Zeros(8)

\* struct.pack raises struct.error on a value outside its format's range
FixedHeaderPacks(channel_data_offset, channels, frame_count, step_time) ==
    /\ InU16(channel_data_offset)
    /\ InU32(channels)
    /\ InU32(frame_count)
    /\ InU8(step_time)

\* the 32-byte fixed header merge_into_fseq packs
MergeHeader(channel_data_offset, total_channels, total_frames, step_time) ==
    FSEQ_MAGIC \o PackU16(channel_data_offset) \o PackU8(0) \o PackU8(2)
    \o PackU16(32) \o PackU32(total_channels) \o PackU32(total_frames)
    \o PackU8(step_time) \o PackU8(0) \o PackU8(0) \o PackU8(0)
    \o PackU8(0) \o PackU8(0) \o Zeros(8)

\* read_fseq_header taking the compression type from the flags byte (19)
read_fseq_header_flags(file) ==
    IF PySlice(file, 0, 4) # FSEQ_MAGIC THEN [err |-> "ValueError"]
    ELSE IF Len(file) < 23 THEN [err |-> "struct.error"]
    ELSE [err |-> "",
          data_offset |-> UnpackU16(file, 4),
          version |-> <<UnpackU8(file, 7), UnpackU8(file, 6)>>,
          var_header_offset |-> UnpackU16(file, 8),
          channel_count |-> UnpackU32(file, 10),
          frame_count |-> UnpackU32(file, 14),
          step_time |-> UnpackU8(file, 18),
          flags |-> UnpackU8(file, 19),
          compression |-> UnpackU8(file, 19),
          comp_blocks |-> UnpackU8(file, 21),
          sparse_ranges |-> UnpackU8(file, 22)]

\* read_fseq_header: err is the exception raised, "" when none
read_fseq_header(file) ==
    IF PySlice(file, 0, 4) # FSEQ_MAGIC THEN [err |-> "ValueError"]
    ELSE IF Len(file) < 23 THEN [err |-> "struct.error"]
    ELSE [err |-> "",
          data_offset |-> UnpackU16(file, 4),
          version |-> <<UnpackU8(file, 7), UnpackU8(file, 6)>>,
          var_header_offset |-> UnpackU16(file, 8),
          channel_count |-> UnpackU32(file, 10),
          frame_count |-> UnpackU32(file, 14),
          step_time |-> UnpackU8(file, 18),
          flags |-> UnpackU8(file, 19),
          compression |-> UnpackU8(file, 20),
          comp_blocks |-> UnpackU8(file, 21),
          sparse_ranges |-> UnpackU8(file, 22)]

-----------------------------------------------------------------------------
(* main: the command line, the decoded audio and the frame parameters *)

NoLocals == [info |-> [err |-> ""], light_data |-> <<>>, total_channels |-> 0,
             total_frames |-> 0, channel_data_offset |-> 0]
NoFile == [opened |-> FALSE, writes |-> <<>>]

\* the content of a file: its write calls, one after the other
RECURSIVE Flatten(_)
Flatten(ws) == IF ws = <<>> THEN <<>> ELSE Head(ws) \o Flatten(Tail(ws))
FileBytes(f) == Flatten(f.writes)
NoCodec == [at |-> "unused"]

inputVars == <<args, audio, lightFile, codec>>
prepVars == <<step_time_ms, samples, n_channels, samples_per_frame,
              channels_per_frame>>
encVars == <<frames, frame_idx>>
outVars == <<locals, frame_i, outFile, ret>>

\* main, "Calculate step time": --step-time overrides --fps; 1000 // 0 and
\* 1000 / 0 raise ZeroDivisionError
StepTime ==
    /\ pc = "start"
    /\ IF args.step_time = <<>> /\ args.fps = 0
       THEN /\ pc' = "error"
            /\ result' = "ZeroDivisionError"
            /\ UNCHANGED step_time_ms
       ELSE LET st == IF args.step_time # <<>> THEN args.step_time[1]
                      ELSE PyFloorDiv(1000, args.fps)
            IN  /\ step_time_ms' = st
                /\ pc' = IF st = 0 THEN "error" ELSE "read"
                /\ result' = IF st = 0 THEN "ZeroDivisionError" ELSE result
    /\ UNCHANGED <<inputVars, samples, n_channels, samples_per_frame,
                   channels_per_frame, encVars, outVars>>

\* main, "Read audio", "Convert to mono", "Resample if needed"
ReadAudio ==
    /\ pc = "read"
    /\ LET mono == ~args.stereo \/ audio.n_channels = 1
           mixed == IF mono THEN to_mono(audio.samples, audio.n_channels)
                    ELSE audio.samples
       IN  /\ n_channels' = IF mono THEN 1 ELSE audio.n_channels
           /\ samples' = IF audio.src_rate # args.sample_rate
                         THEN resample_linear(mixed, audio.src_rate,
                                              args.sample_rate)
                         ELSE mixed
    /\ pc' = "params"
    /\ UNCHANGED <<inputVars, step_time_ms, samples_per_frame,
                   channels_per_frame, result, encVars, outVars>>

\* main, "Calculate frame parameters"; total_frames divides by
\* samples_per_frame and raises ZeroDivisionError when it is 0
FrameParams ==
    /\ pc = "params"
    /\ LET spf == TruncDiv(args.sample_rate * step_time_ms, 1000)
       IN  /\ samples_per_frame' = spf
           /\ channels_per_frame' = 2 + (spf * 2 * n_channels)
           /\ pc' = IF spf = 0 THEN "error" ELSE "encode"
           /\ result' = IF spf = 0 THEN "ZeroDivisionError" ELSE result
    /\ frames' = <<>>
    /\ frame_idx' = 0
    /\ UNCHANGED <<inputVars, step_time_ms, samples, n_channels, outVars>>

\* samples_to_frame_channels: one iteration of the while loop; the loop never
\* ends for samples_per_frame < 0 and is followed for MaxFrameIdx iterations
EncodeFrame ==
    /\ pc = "encode"
    /\ frame_idx * samples_per_frame < Len(samples)
    /\ IF samples_per_frame > 0 THEN TRUE ELSE frame_idx < MaxFrameIdx
    /\ frames' = Append(frames,
                        FrameData(Chunk(samples, samples_per_frame, frame_idx)))
    /\ frame_idx' = frame_idx + 1
    /\ UNCHANGED <<inputVars, prepVars, pc, result, outVars>>

\* samples_to_frame_channels returns; main goes on to merge or to write
EncodeDone ==
    /\ pc = "encode"
    /\ ~(frame_idx * samples_per_frame < Len(samples))
    /\ pc' = IF args.merge THEN "merge" ELSE "write"
    /\ UNCHANGED <<inputVars, prepVars, encVars, result, outVars>>

-----------------------------------------------------------------------------
(* FseqWriter: write_fseq_v2 *)

\* the f.write calls up to the channel data: header, variable header, padding
HeaderWrites(header, variable_header, padding) ==
    IF padding > 0 THEN <<header, variable_header, Zeros(padding)>>
    ELSE <<header, variable_header>>

\* write_fseq_v2 up to the frame loop: the header is packed, then the file
\* is opened and the header, the variable header and the padding written
WriteOpen ==
    /\ pc = "write"
    /\ LET variable_header == build_variable_header(args.input)
           padding == Padding(32 + Len(variable_header))
           channel_data_offset == 32 + Len(variable_header) + padding
       IN  IF FixedHeaderPacks(channel_data_offset, channels_per_frame,
                               Len(frames), step_time_ms)
           THEN /\ outFile' = [opened |-> TRUE,
                               writes |-> HeaderWrites(
                                   FixedHeader(channel_data_offset,
                                               channels_per_frame, Len(frames),
                                               step_time_ms),
                                   variable_header, padding)]
                /\ locals' = [locals EXCEPT
                                !.channel_data_offset = channel_data_offset]
                /\ pc' = "write_frames"
                /\ UNCHANGED result
           ELSE /\ pc' = "error"
                /\ result' = "struct.error"
                /\ UNCHANGED <<outFile, locals>>
    /\ frame_i' = 0
    /\ UNCHANGED <<inputVars, prepVars, encVars, ret>>

\* write_fseq_v2: one iteration of the frame loop, with its assertion
WriteFrame ==
    /\ pc = "write_frames"
    /\ frame_i < Len(frames)
    /\ LET frame == frames[frame_i + 1]
       IN  IF Len(frame) = channels_per_frame
           THEN /\ outFile' = [outFile EXCEPT !.writes = Append(@, frame)]
                /\ frame_i' = frame_i + 1
                /\ UNCHANGED <<pc, result>>
           ELSE /\ pc' = "error"
                /\ result' = "AssertionError"
                /\ UNCHANGED <<outFile, frame_i>>
    /\ UNCHANGED <<inputVars, prepVars, encVars, locals, ret>>

\* write_fseq_v2 returns total_size and main ends
WriteDone ==
    /\ pc = "write_frames"
    /\ frame_i = Len(frames)
    /\ ret' = <<locals.channel_data_offset + (Len(frames) * channels_per_frame)>>
    /\ pc' = "done"
    /\ result' = "ok"
    /\ UNCHANGED <<inputVars, prepVars, encVars, locals, frame_i, outFile>>

-----------------------------------------------------------------------------
(* FseqMerger: merge_into_fseq *)

\* merge_into_fseq reads the target's header and rejects a compressed or a
\* non-v2 target with sys.exit(1)
MergeReadHeader ==
    /\ pc = "merge"
    /\ LET info == read_fseq_header(lightFile)
       IN  IF info.err # ""
           THEN /\ pc' = "error"
                /\ result' = info.err
                /\ UNCHANGED locals
           ELSE IF info.compression # 0
           THEN /\ pc' = "error"
                /\ result' = "SystemExit(compressed)"
                /\ UNCHANGED locals
           ELSE IF info.version[1] # 2
           THEN /\ pc' = "error"
                /\ result' = "SystemExit(version)"
                /\ UNCHANGED locals
           ELSE /\ pc' = "merge_open"
                /\ locals' = [locals EXCEPT !.info = info]
                /\ UNCHANGED result
    /\ UNCHANGED <<inputVars, prepVars, encVars, frame_i, outFile, ret>>

\* merge_into_fseq from the dimensions to the header written to the output
MergeOpen ==
    /\ pc = "merge_open"
    /\ LET info == locals.info
           total_frames == Max(info.frame_count, Len(frames))
           total_channels == Max(info.channel_count,
                                 args.start_channel + channels_per_frame)
           light_data == PySlice(lightFile, info.data_offset, Len(lightFile))
           var_header == build_variable_header(MergedName)
           padding == Padding(32 + Len(var_header))
           channel_data_offset == 32 + Len(var_header) + padding
       IN  IF FixedHeaderPacks(channel_data_offset, total_channels,
                               total_frames, info.step_time)
           THEN /\ locals' = [info |-> info, light_data |-> light_data,
                              total_channels |-> total_channels,
                              total_frames |-> total_frames,
                              channel_data_offset |-> channel_data_offset]
                /\ outFile' = [opened |-> TRUE,
                               writes |-> HeaderWrites(
                                   MergeHeader(channel_data_offset,
                                               total_channels, total_frames,
                                               info.step_time),
                                   var_header, padding)]
                /\ pc' = "merge_rows"
                /\ UNCHANGED result
           ELSE /\ pc' = "error"
                /\ result' = "struct.error"
                /\ UNCHANGED <<locals, outFile>>
    /\ frame_i' = 0
    /\ UNCHANGED <<inputVars, prepVars, encVars, ret>>

\* the row of output frame fi with the overlay order swapped: the light row
\* is copied after the audio frame and wins where the two overlap
MergeRowBytesLightLast(fi, total_channels, info, light_data, audio_frames, audio_channels_per_frame, start_channel) ==
    LET zero == Zeros(total_channels)
        light_start == fi * info.channel_count
        light_end == light_start + info.channel_count
        aud == IF fi < Len(audio_frames)
               THEN PySliceAssign(zero, start_channel,
                                  start_channel + audio_channels_per_frame,
                                  audio_frames[fi + 1])
               ELSE zero
    IN  IF fi < info.frame_count /\ light_end <= Len(light_data)
        THEN PySliceAssign(aud, 0, info.channel_count,
                           PySlice(light_data, light_start, light_end))
        ELSE aud

\* the row of output frame fi: zeros, the light row when all of it was read,
\* then the audio frame assigned to the slice at start_channel
MergeRowBytes(fi, total_channels, info, light_data, audio_frames, audio_channels_per_frame, start_channel) ==
    LET zero == Zeros(total_channels)
        light_start == fi * info.channel_count
        light_end == light_start + info.channel_count
        lit == IF fi < info.frame_count /\ light_end <= Len(light_data)
               THEN PySliceAssign(zero, 0, info.channel_count,
                                  PySlice(light_data, light_start, light_end))
               ELSE zero
    IN  IF fi < Len(audio_frames)
        THEN PySliceAssign(lit, start_channel,
                           start_channel + audio_channels_per_frame,
                           audio_frames[fi + 1])
        ELSE lit

\* merge_into_fseq: one iteration of the row loop
MergeRow ==
    /\ pc = "merge_rows"
    /\ frame_i < locals.total_frames
    /\ outFile' = [outFile EXCEPT !.writes =
                      Append(@, MergeRowBytes(frame_i, locals.total_channels,
                                              locals.info, locals.light_data,
                                              frames, channels_per_frame,
                                              args.start_channel))]
    /\ frame_i' = frame_i + 1
    /\ UNCHANGED <<inputVars, prepVars, encVars, locals, pc, result, ret>>

\* merge_into_fseq returns (total_size, total_channels, total_frames)
MergeDone ==
    /\ pc = "merge_rows"
    /\ frame_i = locals.total_frames
    /\ ret' = <<locals.channel_data_offset
                + (locals.total_frames * locals.total_channels),
                locals.total_channels, locals.total_frames>>
    /\ pc' = "done"
    /\ result' = "ok"
    /\ UNCHANGED <<inputVars, prepVars, encVars, locals, frame_i, outFile>>

-----------------------------------------------------------------------------
(* Runs of main on small inputs *)

\* sample values: the most negative value, a small negative one, and one
\* whose two bytes differ
SampleVals == {-32768, -3, 258}
SampleSeqs == UNION {[1..n -> SampleVals] : n \in 0..MaxLen}

\* (--fps, --step-time): 25 ms, fps 0, step 0, 50 ms, 10 ms, -25 ms
StepArgs == {<<40, <<>>>>, <<0, <<>>>>, <<40, <<0>>>>, <<40, <<50>>>>,
             <<40, <<10>>>>, <<40, <<-25>>>>}

\* "d/a.wav"
InputPath == <<100, 47, 97, 46, 119, 97, 118>>

Audios == {[samples |-> s, src_rate |-> r, n_channels |-> c] :
              s \in SampleSeqs, r \in {40, 80}, c \in {1, 2}}

\* a merge target: a fixed header with no variable header, then data bytes
\* 17, 18, ... so that every channel of every row differs
LightFileBytes(magic, major, compression, channels, frame_count, data_len) ==
    magic \o PackU16(32) \o <<0, major>> \o PackU16(32) \o PackU32(channels)
    \o PackU32(frame_count) \o <<50, 0, compression, 0, 0, 0>> \o Zeros(8)
    \o [i \in 1..data_len |-> 16 + i]

LightChannels == {1, 3, 7}

LightFiles ==
    {LightFileBytes(FSEQ_MAGIC, 2, 0, c, f, c * f) :
        c \in LightChannels, f \in 0..MaxLightFrames}
    \cup {LightFileBytes(FSEQ_MAGIC, 2, 0, c, MaxLightFrames,
                         c * MaxLightFrames - 1) : c \in LightChannels}
    \cup {LightFileBytes(FSEQ_MAGIC, v, z, 3, 1, 3) :
            v \in {1, 2}, z \in {0, 1}}
    \cup {LightFileBytes(<<80, 83, 69, 80>>, 2, 0, 3, 1, 3)}

\* nothing computed, nothing written yet
Blank ==
    /\ result = "running"
    /\ step_time_ms = 0
    /\ samples = <<>>
    /\ n_channels = 0
    /\ samples_per_frame = 0
    /\ channels_per_frame = 0
    /\ frames = <<>>
    /\ frame_idx = 0
    /\ locals = NoLocals
    /\ frame_i = 0
    /\ outFile = NoFile
    /\ ret = <<>>

\* a command line, a decoded audio file whose length is a multiple of its
\* channel count and, with --merge, a target file; the audio is resampled
\* only in standalone runs
Init ==
    /\ \E sa \in StepArgs, st \in BOOLEAN, mg \in BOOLEAN, sc \in 0..MaxStart :
          /\ mg \/ sc = 0
          /\ args = [input |-> InputPath, fps |-> sa[1], step_time |-> sa[2],
                     sample_rate |-> 40, merge |-> mg, start_channel |-> sc,
                     stereo |-> st]
          /\ IF mg THEN lightFile \in LightFiles ELSE lightFile = <<>>
    /\ audio \in {a \in Audios : Len(a.samples) % a.n_channels = 0}
    /\ args.merge => audio.src_rate = args.sample_rate
    /\ pc = "start"
    /\ codec = NoCodec
    /\ Blank

Next ==
    \/ StepTime
    \/ ReadAudio
    \/ FrameParams
    \/ EncodeFrame
    \/ EncodeDone
    \/ WriteOpen
    \/ WriteFrame
    \/ WriteDone
    \/ MergeReadHeader
    \/ MergeOpen
    \/ MergeRow
    \/ MergeDone

Spec == Init /\ [][Next]_vars

-----------------------------------------------------------------------------
(* The end-to-end scenario: one second of silence at 44100 Hz, standalone *)

\* the while loop of samples_to_frame_channels run to its end, from frame
\* number fi with the frames fr built so far; it ends only for
\* samples_per_frame > 0 or no samples
RECURSIVE samples_to_frame_channels(_, _, _, _)
samples_to_frame_channels(smp, spf, fi, fr) ==
    IF fi * spf < Len(smp)
    THEN samples_to_frame_channels(smp, spf, fi + 1,
                                   Append(fr, FrameData(Chunk(smp, spf, fi))))
    ELSE fr

\* the frame loop of write_fseq_v2 run to its end or to the failing
\* assertion: the write calls made, whether every assertion held, and the
\* number n of frames written
RECURSIVE WriteFrames(_, _, _, _)
WriteFrames(fr, cpf, i, writes) ==
    IF i > Len(fr) THEN [writes |-> writes, ok |-> TRUE, n |-> i - 1]
    ELSE IF Len(fr[i]) # cpf THEN [writes |-> writes, ok |-> FALSE, n |-> i - 1]
    ELSE WriteFrames(fr, cpf, i + 1, Append(writes, fr[i]))

InitE2E ==
    /\ \E fps \in {10, 20, 25, 40, 50}, st \in BOOLEAN, n \in {44080, 44100} :
          /\ args = [input |-> InputPath, fps |-> fps, step_time |-> <<>>,
                     sample_rate |-> 44100, merge |-> FALSE,
                     start_channel |-> 0, stereo |-> st]
          /\ audio = [samples |-> Zeros(n), src_rate |-> 44100,
                      n_channels |-> 1]
    /\ lightFile = <<>>
    /\ pc = "start"
    /\ codec = NoCodec
    /\ Blank

\* samples_to_frame_channels from call to return
Encode ==
    /\ pc = "encode"
    /\ samples_per_frame > 0
    /\ frames' = samples_to_frame_channels(samples, samples_per_frame, 0, <<>>)
    /\ frame_idx' = Len(frames')
    /\ pc' = IF args.merge THEN "merge" ELSE "write"
    /\ UNCHANGED <<inputVars, prepVars, result, outVars>>

\* write_fseq_v2 from call to return, or to the exception that ends it
Write ==
    /\ pc = "write"
    /\ LET variable_header == build_variable_header(args.input)
           padding == Padding(32 + Len(variable_header))
           channel_data_offset == 32 + Len(variable_header) + padding
           written == WriteFrames(frames, channels_per_frame, 1,
                          HeaderWrites(
                              FixedHeader(channel_data_offset,
                                          channels_per_frame, Len(frames),
                                          step_time_ms),
                              variable_header, padding))
       IN  IF ~FixedHeaderPacks(channel_data_offset, channels_per_frame,
                                Len(frames), step_time_ms)
           THEN /\ pc' = "error"
                /\ result' = "struct.error"
                /\ frame_i' = 0
                /\ UNCHANGED <<outFile, locals, ret>>
           ELSE /\ outFile' = [opened |-> TRUE, writes |-> written.writes]
                /\ frame_i' = written.n
                /\ locals' = [locals EXCEPT
                                !.channel_data_offset = channel_data_offset]
                /\ pc' = IF written.ok THEN "done" ELSE "error"
                /\ result' = IF written.ok THEN "ok" ELSE "AssertionError"
                /\ ret' = IF written.ok
                          THEN <<channel_data_offset
                                 + (Len(frames) * channels_per_frame)>>
                          ELSE ret
    /\ UNCHANGED <<inputVars, prepVars, encVars>>

NextE2E ==
    \/ StepTime
    \/ ReadAudio
    \/ FrameParams
    \/ Encode
    \/ Write

SpecE2E == InitE2E /\ [][NextE2E]_vars

-----------------------------------------------------------------------------
(* to_mono on its own, over signed 16-bit values *)

\* longest input of to_mono, in groups of n_channels samples
MaxGroups == 2

Int16Vals == {-32768, -4, -3, 0, 3, 4, 32767}

InitMono ==
    /\ \E c \in {1, 2}, g \in 0..MaxGroups :
          \E s \in [1..(g * c) -> Int16Vals] :
              audio = [samples |-> s, src_rate |-> 40, n_channels |-> c]
    /\ args = [input |-> InputPath, fps |-> 40, step_time |-> <<>>,
               sample_rate |-> 40, merge |-> FALSE, start_channel |-> 0,
               stereo |-> FALSE]
    /\ lightFile = <<>>
    /\ pc = "mono"
    /\ codec = NoCodec
    /\ Blank

\* samples = to_mono(samples, n_channels); n_channels = 1
MonoApply ==
    /\ pc = "mono"
    /\ samples' = to_mono(audio.samples, audio.n_channels)
    /\ n_channels' = 1
    /\ pc' = "mono_done"
    /\ UNCHANGED <<inputVars, step_time_ms, samples_per_frame,
                   channels_per_frame, result, encVars, outVars>>

NextMono == MonoApply

SpecMono == InitMono /\ [][NextMono]_vars

-----------------------------------------------------------------------------
(* The fixed header on its own: packed as the writer packs it, then read *)

U32Vals == {0, 1, 255, 256, 65535, 65536, 16777216, 2147483647}
U8Vals == {0, 1, 25, 255}
VarLens == 0..MaxVarLen \cup {300}

InitHeader ==
    /\ \E c \in U32Vals, f \in U32Vals, t \in U8Vals, n \in VarLens :
          codec = [at |-> "fields", channels |-> c, frame_count |-> f,
                   step_time |-> t,
                   variable_header |-> [i \in 1..n |-> (i * 37) % 256],
                   bytes |-> <<>>, decoded |-> [err |-> ""]]
    /\ args = [input |-> InputPath, fps |-> 40, step_time |-> <<>>,
               sample_rate |-> 40, merge |-> FALSE, start_channel |-> 0,
               stereo |-> FALSE]
    /\ audio = [samples |-> <<>>, src_rate |-> 40, n_channels |-> 1]
    /\ lightFile = <<>>
    /\ pc = "codec"
    /\ Blank

\* the header, variable header and padding of write_fseq_v2, for a given
\* frame count
HeaderEncode ==
    /\ pc = "codec"
    /\ codec.at = "fields"
    /\ LET padding == Padding(32 + Len(codec.variable_header))
           channel_data_offset == 32 + Len(codec.variable_header) + padding
       IN  codec' = [codec EXCEPT
                !.at = "packed",
                !.bytes = Flatten(HeaderWrites(
                              FixedHeader(channel_data_offset, codec.channels,
                                          codec.frame_count, codec.step_time),
                              codec.variable_header, padding))]
    /\ UNCHANGED <<args, audio, lightFile, pc, result, prepVars, encVars,
                   outVars>>

\* read_fseq_header on the bytes written
HeaderDecode ==
    /\ pc = "codec"
    /\ codec.at = "packed"
    /\ codec' = [codec EXCEPT !.at = "read",
                              !.decoded = read_fseq_header(codec.bytes)]
    /\ UNCHANGED <<args, audio, lightFile, pc, result, prepVars, encVars,
                   outVars>>

NextHeader == HeaderEncode \/ HeaderDecode

SpecHeader == InitHeader /\ [][NextHeader]_vars

-----------------------------------------------------------------------------
(* Properties *)

\* main has computed samples_per_frame and channels_per_frame
PastParams == pc \notin {"start", "read", "params", "mono", "mono_done", "codec"}

\* the f.write calls that precede the rows of a merge
MergeHeaderWrites == Len(outFile.writes) - frame_i

\* byte c (from 0) of the channel-data region of the merge target
LightByte(c) == lightFile[UnpackU16(lightFile, 4) + c + 1]

\* the merge target holds all the channel data its header declares
LightComplete ==
    Len(lightFile) - UnpackU16(lightFile, 4)
        >= UnpackU32(lightFile, 10) * UnpackU32(lightFile, 14)

\* C1: for samples_per_frame >= 1, in mono and in retained-stereo mode, every
\* encoded frame is 2 + samples_per_frame * 2 * n_channels bytes long, the
\* width main declares, and the writer's frame-size assertion never fires.
C1_FrameWidthDeclared ==
    (PastParams /\ samples_per_frame >= 1 /\ n_channels \in {1, 2}) =>
        /\ channels_per_frame = 2 + samples_per_frame * 2 * n_channels
        /\ \A i \in 1..Len(frames) : Len(frames[i]) = channels_per_frame
        /\ result # "AssertionError"

\* what the end-to-end run at 40 fps must look like, once encoded, with n
\* frames
E2EFrames(n) ==
    (pc \in {"write", "done"} /\ args.fps = 40 /\ args.sample_rate = 44100
     /\ audio.src_rate = 44100 /\ Len(audio.samples) = 44100) =>
        /\ samples_per_frame = 1102
        /\ channels_per_frame = 2206
        /\ Len(frames) = n
        /\ \A i \in 1..Len(frames) :
              /\ Len(frames[i]) = 2206
              /\ frames[i][1] = 170
              /\ frames[i][2] = 85
              /\ \A b \in 3..Len(frames[i]) : frames[i][b] = 0
        /\ pc = "done" =>
              /\ Len(outFile.writes) = 3 + n
              /\ \A i \in 1..Len(frames) : outFile.writes[3 + i] = frames[i]

\* C2 (as amended): 44100 zero samples at 44100 Hz, 40 fps, give
\* samples_per_frame 1102 and 41 frames (ceil(44100 / 1102)), each 2206
\* bytes, starting 0xAA 0x55, with every PCM byte zero.
C2_E2E41Frames == E2EFrames(41)

\* C2 (as claimed): the same run produces exactly 40 frames.
C2_E2E40Frames == E2EFrames(40)

C2_Witness ==
    /\ pc = "write"
    /\ args.fps = 40
    /\ Len(audio.samples) = 44100
    /\ Len(frames) = 41
    /\ Len(frames[41]) = 2206

\* C3: in a merge of audio frames of the declared width into a target holding
\* all its channel data, total_frames and total_channels are the maxima, and
\* every written row holds the audio frame at [start_channel, start_channel +
\* channels_per_frame), the target's row outside that span, and zero elsewhere.
C3_MergeUnionGrid ==
    (args.merge /\ pc \in {"merge_rows", "done"} /\ LightComplete
     /\ \A i \in 1..Len(frames) : Len(frames[i]) = channels_per_frame) =>
        LET lcc == UnpackU32(lightFile, 10)
            lfc == UnpackU32(lightFile, 14)
            sc == args.start_channel
        IN  /\ locals.total_frames = Max(lfc, Len(frames))
            /\ locals.total_channels = Max(lcc, sc + channels_per_frame)
            /\ pc = "done" => /\ frame_i = locals.total_frames
                              /\ ret[2] = locals.total_channels
                              /\ ret[3] = locals.total_frames
            /\ \A f \in 0..(frame_i - 1) :
                  LET row == outFile.writes[MergeHeaderWrites + f + 1]
                  IN  /\ Len(row) = locals.total_channels
                      /\ \A c \in 0..(locals.total_channels - 1) :
                            row[c + 1] =
                                IF f < Len(frames) /\ c >= sc
                                   /\ c < sc + channels_per_frame
                                THEN frames[f + 1][c - sc + 1]
                                ELSE IF f < lfc /\ c < lcc
                                THEN LightByte(f * lcc + c)
                                ELSE 0

C3_Witness ==
    /\ pc = "done"
    /\ args.merge
    /\ args.start_channel = 2
    /\ locals.info.channel_count = 3
    /\ locals.info.frame_count = 1
    /\ LightComplete
    /\ Len(frames) = 2
    /\ channels_per_frame = 4
    /\ locals.total_channels = 6
    /\ locals.total_frames = 2

\* the merge target's header bytes say compressed, or not version 2
TargetRejected ==
    /\ args.merge
    /\ PySlice(lightFile, 0, 4) = FSEQ_MAGIC
    /\ lightFile[21] # 0 \/ lightFile[8] # 2

\* C4: when the merge target's header has compression # 0 or major version
\* # 2, the run never gets past the header checks: it ends in the rejection
\* (compression first), the output file is never opened and nothing is written.
C4_RejectBeforeWrite ==
    TargetRejected =>
        /\ ~outFile.opened
        /\ outFile.writes = <<>>
        /\ pc \notin {"merge_open", "merge_rows", "done"}
        /\ result \in {"running", "ZeroDivisionError",
                       IF lightFile[21] # 0 THEN "SystemExit(compressed)"
                       ELSE "SystemExit(version)"}

C4_Witness ==
    /\ TargetRejected
    /\ pc = "error"
    /\ result = "SystemExit(compressed)"
    /\ frames # <<>>

\* C5: a merge target whose channel-data region is shorter than
\* channel_count * frame_count makes the merge fail; no merged file is
\* completed from the short data.
C5_TruncatedRejected ==
    (args.merge /\ PySlice(lightFile, 0, 4) = FSEQ_MAGIC /\ ~LightComplete) =>
        pc # "done"

\* C6: when samples_per_frame = floor(sample_rate * step_time_ms / 1000) is
\* <= 0 the run ends in an error: no frame is encoded, the output file is
\* not opened and the run does not complete.
C6_InvalidFrameRate ==
    (PastParams /\ samples_per_frame <= 0) =>
        /\ frames = <<>>
        /\ ~outFile.opened
        /\ pc # "done"

\* m is the floor of sum / 2
FloorHalf(sum, m) == 2 * m <= sum /\ sum < 2 * m + 2
\* m is sum / 2 truncated toward zero
TruncHalf(sum, m) == IF sum >= 0 THEN 2 * m <= sum /\ sum < 2 * m + 2
                     ELSE 2 * m >= sum /\ sum > 2 * m - 2

\* the result of to_mono: the input for one channel; for two channels one
\* sample per pair, the floor of the pair's mean or its truncation
MonoIs(floored) ==
    pc = "mono_done" =>
        IF audio.n_channels = 1 THEN samples = audio.samples
        ELSE /\ Len(samples) * 2 = Len(audio.samples)
             /\ \A k \in 1..Len(samples) :
                   LET sum == audio.samples[2 * k - 1] + audio.samples[2 * k]
                   IN  IF floored THEN FloorHalf(sum, samples[k])
                       ELSE TruncHalf(sum, samples[k])

\* C7 (as amended): to_mono with one channel returns its input; with two
\* channels it yields per pair floor((L + R) / 2), rounded toward negative
\* infinity (L=3, R=4 gives 3; L=-3, R=-4 gives -4).
C7_MonoFloorMean == MonoIs(TRUE)

\* C7 (as claimed): the mean is truncated toward zero (L=-3, R=-4 gives -3).
C7_MonoTruncMean == MonoIs(FALSE)

C7_Witness ==
    /\ pc = "mono_done"
    /\ audio.n_channels = 2
    /\ audio.samples = <<3, 4, -3, -4>>
    /\ samples = <<3, -4>>

\* the frames encoded so far follow the frame layout
FrameLayout ==
    (PastParams /\ samples_per_frame >= 1 /\ Len(samples) >= 1) =>
        /\ pc # "encode" =>
              Len(frames) = (Len(samples) + samples_per_frame - 1)
                                \div samples_per_frame
        /\ \A k \in 0..(Len(frames) - 1) :
              /\ Len(frames[k + 1]) = 2 + 2 * samples_per_frame
              /\ frames[k + 1][1] = 170
              /\ frames[k + 1][2] = 85
              /\ \A j \in 0..(samples_per_frame - 1) :
                    LET idx == k * samples_per_frame + j
                        v == IF idx < Len(samples) THEN samples[idx + 1] ELSE 0
                        hi == frames[k + 1][3 + 2 * j]
                        lo == frames[k + 1][4 + 2 * j]
                    IN  /\ hi \in 0..255
                        /\ lo \in 0..255
                        /\ (hi * 256 + lo - v) % 65536 = 0

\* C8: for n >= 1 samples and samples_per_frame >= 1 the encoder ends with
\* ceil(n / samples_per_frame) frames, each starting 0xAA 0x55, slot j of
\* frame k holding high then low byte of the two's complement of sample
\* k * samples_per_frame + j, or of 0 past the end of the input; and no step
\* of the encoder changes the sample sequence.
C8_FrameLayout ==
    /\ []FrameLayout
    /\ [][pc = "encode" => samples' = samples]_vars

C8_Witness ==
    /\ pc \in {"write", "merge"}
    /\ samples_per_frame = 2
    /\ Len(samples) = 3
    /\ samples[3] = -32768
    /\ Len(frames) = 2

\* C9: the fixed header the writer packs for (channels, frames, step time)
\* and a variable header reads back as the same three fields, version (2, 0),
\* compression 0, variable header offset 32 and data offset 32 + the variable
\* header's length rounded up to a multiple of 4.
C9_HeaderRoundTrip ==
    codec.at = "read" =>
        /\ codec.decoded.err = ""
        /\ codec.decoded.channel_count = codec.channels
        /\ codec.decoded.frame_count = codec.frame_count
        /\ codec.decoded.step_time = codec.step_time
        /\ codec.decoded.version = <<2, 0>>
        /\ codec.decoded.compression = 0
        /\ codec.decoded.var_header_offset = 32
        /\ codec.decoded.data_offset
              = ((32 + Len(codec.variable_header) + 3) \div 4) * 4

C9_Witness ==
    /\ codec.at = "read"
    /\ codec.channels = 2147483647
    /\ codec.frame_count = 65536
    /\ codec.step_time = 255
    /\ Len(codec.variable_header) = 1
    /\ codec.decoded.data_offset = 36

\* C10: in every completed merge, mono or retained stereo, every row written
\* has total_channels bytes, the channel data written is total_frames *
\* total_channels bytes, and the returned size is the size of the file.
C10_MergeRowsFull ==
    (args.merge /\ pc = "done") =>
        /\ \A f \in 0..(locals.total_frames - 1) :
              Len(outFile.writes[MergeHeaderWrites + f + 1])
                  = locals.total_channels
        /\ Len(FileBytes(outFile)) - locals.channel_data_offset
              = locals.total_frames * locals.total_channels
        /\ ret[1] = Len(FileBytes(outFile))

=============================================================================
